---- MODULE Spec2Model ----
(***************************************************************************)
(* The code generator of nova-lang (compiler/src/lib.rs): a typed AST is   *)
(* lowered to a list of Asm instructions by Compiler::compile_program and  *)
(* the expression / atom / reference compilers it drives.                  *)
(*                                                                         *)
(* A Compiler value is a record of the struct's fields that the generator  *)
(* reads or writes (global, variables, native_functions, asm, gen, breaks, *)
(* output) plus `ok`, which is FALSE once a todo!() / panic!() (or an      *)
(* overflow check) has aborted the process.  The compiler never builds a   *)
(* NovaError, so the Result channel only ever carries Ok.                  *)
(*                                                                         *)
(* Instructions are records [op, a, b, s]: opcode, up to two numeric       *)
(* operands and a string operand.  A u32 operand produced by a wrapping    *)
(* subtraction is kept as its residue in -2^31 .. 2^31-1 (so -k stands for *)
(* 2^32 - k).                                                              *)
(***************************************************************************)
EXTENDS Integers, Sequences, FiniteSets, TLC

VARIABLES self, status, input, prev, flags, first_match, overflow_checks

vars == <<self, status, input, prev, flags, first_match, overflow_checks>>

(* Bound of the model: the total number of AST nodes of the top-level      *)
(* statement sequence handed to compile_program.                           *)
MaxSize == 6

-----------------------------------------------------------------------------
(* Asm instructions                                                        *)

Asm(op, a, b, s) == [op |-> op, a |-> a, b |-> b, s |-> s]
Op0(op) == Asm(op, 0, 0, "")
Op1(op, a) == Asm(op, a, 0, "")
BoolArg(b) == IF b THEN 1 ELSE 0

-----------------------------------------------------------------------------
(* common::table::Table<String>: an ordered list of names; the slot of a   *)
(* name is its zero-based position.  Which slot a duplicated name resolves *)
(* to is left open by the table's contract: first_match selects it.        *)

None == -1

table_new == <<>>

table_insert(t, name) == Append(t, name)

table_len(t) == Len(t)

table_has(t, name) == \E i \in 1..Len(t) : t[i] = name

get_index(t, name) ==
    IF ~table_has(t, name) THEN None
    ELSE LET hits == {i \in 1..Len(t) : t[i] = name}
             pick == IF first_match
                     THEN CHOOSE i \in hits : \A j \in hits : i <= j
                     ELSE CHOOSE i \in hits : \A j \in hits : i >= j
         IN  pick - 1

(* usize subtraction: a build with overflow checks panics on underflow, a  *)
(* build without them wraps; `ok` of the pair tells which happened.        *)
usize_sub(a, b) ==
    [v |-> a - b, ok |-> (a >= b) \/ ~overflow_checks]

-----------------------------------------------------------------------------
(* Compiler::new and the primitive updates of a Compiler value.  After an  *)
(* abort nothing more is executed, so every update is the identity then.   *)

new ==
    [native_functions |-> table_new,
     variables        |-> table_new,
     output           |-> <<>>,
     global           |-> table_new,
     asm              |-> <<>>,
     gen              |-> 0,
     breaks           |-> <<>>,
     ok               |-> TRUE]

abort(c) == [c EXCEPT !.ok = FALSE]

push(c, ins) == IF c.ok THEN [c EXCEPT !.asm = Append(@, ins)] ELSE c

asm_pop(c) ==
    IF c.ok /\ Len(c.asm) > 0
    THEN [c EXCEPT !.asm = SubSeq(@, 1, Len(@) - 1)]
    ELSE c

(* common::gen::Gen::generate: the id handed out and the advanced counter  *)
generate(c) == [id |-> c.gen, c |-> IF c.ok THEN [c EXCEPT !.gen = @ + 1] ELSE c]

insert_all(t, names) == t \o names

-----------------------------------------------------------------------------
(* The AST.  Expressions are records tagged by k (Expr variant) carrying   *)
(* their static type t; atoms are tagged by a; statements by s.            *)

RECURSIVE compile_program(_, _, _, _, _)
RECURSIVE compile_statements(_, _)
RECURSIVE compile_statement(_, _)
RECURSIVE compile_expr(_, _)
RECURSIVE compile_list(_, _)
RECURSIVE compile_atom(_, _)
RECURSIVE getref_expr(_, _)
RECURSIVE getref_atom(_, _)

(* Expr::get_type: the static type tag the node carries                    *)
get_type(e) == IF e.k = "None" THEN "None" ELSE e.t

(* The literal constructors used by both atom compilers                    *)
atom_literal(c, atom) ==
    CASE atom.a = "Bool"    -> push(c, Op1("BOOL", BoolArg(atom.bv)))
      [] atom.a = "Float"   -> push(c, Op1("FLOAT", atom.fv))
      [] atom.a = "String"  -> push(c, Asm("STRING", 0, 0, atom.str))
      [] atom.a = "Integer" -> push(c, Op1("INTEGER", atom.v))

-----------------------------------------------------------------------------
(* Compiler::getref_atom                                                   *)

getref_id(c, identifier) ==
    LET index == get_index(c.variables, identifier)
    IN  IF index # None THEN push(c, Op1("STACKREF", index)) ELSE abort(c)

getref_call(c, caller, list) ==
    LET c1 == compile_list(c, list)
    IN  CASE caller = "print" -> push(c1, Op0("PRINT"))
          [] caller = "free"  -> push(c1, Op0("FREE"))
          [] caller = "clone" -> push(c1, Op0("CLONE"))
          [] OTHER ->
               LET vi == get_index(c1.variables, caller)
                   gi == get_index(c1.global, caller)
               IN  IF vi # None THEN push(push(c1, Op1("GET", vi)), Op0("CALL"))
                   ELSE IF gi # None THEN push(c1, Op1("DCALL", gi))
                   ELSE abort(c1)

getref_atom(c, atom) ==
    IF ~c.ok THEN c
    ELSE CASE atom.a = "Id"   -> getref_id(c, atom.id)
           [] atom.a = "Call" -> getref_call(c, atom.caller, atom.list)
           [] OTHER           -> atom_literal(c, atom)

-----------------------------------------------------------------------------
(* Compiler::getref_expr                                                   *)

getref_indexed(c, index, from) ==
    LET c1 == IF index.k = "Literal"
              THEN CASE index.atom.a = "Id" ->
                          LET vi == get_index(c.variables, index.atom.id)
                          IN  IF vi # None THEN push(c, Op1("STACKREF", vi)) ELSE c
                     [] index.atom.a = "Integer" -> push(c, Op1("INTEGER", index.atom.v))
                     [] OTHER -> abort(c)
              ELSE c
    IN  push(getref_expr(c1, from), Op0("PIN"))

getref_expr(c, expr) ==
    IF ~c.ok THEN c
    ELSE CASE expr.k = "None"    -> c
           [] expr.k = "Field"   ->
                push(getref_expr(push(c, Op1("INTEGER", expr.fidx)), expr.from), Op0("PIN"))
           [] expr.k = "Indexed" -> getref_indexed(c, expr.index, expr.from)
           [] expr.k = "Literal" -> getref_atom(c, expr.atom)
           [] OTHER              -> abort(c)

-----------------------------------------------------------------------------
(* Compiler::compile_atom                                                  *)

compile_id(c, identifier) ==
    LET vi == get_index(c.variables, identifier)
        gi == get_index(c.global, identifier)
    IN  IF vi # None THEN push(c, Op1("GET", vi))
        ELSE IF gi # None THEN push(c, Op1("GETGLOBAL", gi))
        ELSE c

compile_callee(c, caller) ==
    CASE caller = "super::free"  -> push(c, Op0("FREE"))
      [] caller = "super::clone" -> push(c, Op0("CLONE"))
      [] caller = "super::print" ->
           IF c.ok THEN [push(c, Op0("PRINT")) EXCEPT !.output = Append(@, "PRINT")] ELSE c
      [] OTHER ->
           LET ni == get_index(c.native_functions, caller)
               vi == get_index(c.variables, caller)
               gi == get_index(c.global, caller)
           IN  IF ni # None THEN push(c, Op1("NATIVE", ni))
               ELSE IF vi # None THEN push(push(c, Op1("GET", vi)), Op0("CALL"))
               ELSE IF gi # None THEN push(c, Op1("DCALL", gi))
               ELSE abort(c)

compile_call(c, caller, list) == compile_callee(compile_list(c, list), caller)

compile_atom(c, atom) ==
    IF ~c.ok THEN c
    ELSE CASE atom.a = "Id"   -> compile_id(c, atom.id)
           [] atom.a = "Call" -> compile_call(c, atom.caller, atom.list)
           [] OTHER           -> atom_literal(c, atom)

-----------------------------------------------------------------------------
(* Compiler::compile_expr                                                  *)

compile_list(c, list) ==
    IF list = <<>> THEN c
    ELSE compile_list(compile_expr(c, Head(list)), Tail(list))

(* the type-directed opcode: integer or floating variant by the static     *)
(* type of lhs; any other type only prints a diagnostic                    *)
typed_op(c, lhs, int_op, float_op) ==
    IF get_type(lhs) = "Int" THEN push(c, Op0(int_op))
    ELSE IF get_type(lhs) = "Float" THEN push(c, Op0(float_op))
    ELSE c

compile_arith(c, lhs, rhs, int_op, float_op) ==
    typed_op(compile_expr(compile_expr(c, lhs), rhs), lhs, int_op, float_op)

compile_assignment(c, lhs, rhs) ==
    push(getref_expr(compile_expr(c, rhs), lhs), Op0("ASSIGN"))

compile_modulo(c, lhs, rhs) ==
    push(compile_expr(compile_expr(c, lhs), rhs), Op0("IMODULO"))

(* compile_or_equal without the NOT ahead of the branch                    *)
compile_or_equal_branch_on_false(c, lhs, rhs, int_op, float_op) ==
    LET g  == generate(c)
        sc == g.id
        c1 == typed_op(compile_expr(compile_expr(g.c, lhs), rhs), lhs, int_op, float_op)
        c2 == push(push(push(c1, Op0("DUP")), Op1("JUMPIFFALSE", sc)), Op0("POP"))
        c3 == push(compile_expr(compile_expr(c2, lhs), rhs), Op0("EQUALS"))
    IN  push(c3, Op1("LABEL", sc))

compile_or_equal(c, lhs, rhs, int_op, float_op) ==
    LET g  == generate(c)
        sc == g.id
        c1 == typed_op(compile_expr(compile_expr(g.c, lhs), rhs), lhs, int_op, float_op)
        c2 == push(push(push(push(c1, Op0("DUP")), Op0("NOT")),
                        Op1("JUMPIFFALSE", sc)), Op0("POP"))
        c3 == push(compile_expr(compile_expr(c2, lhs), rhs), Op0("EQUALS"))
    IN  push(c3, Op1("LABEL", sc))

(* compile_and with the operands emitted in the opposite order             *)
compile_and_swapped(c, lhs, rhs) ==
    LET g  == generate(c)
        sc == g.id
        c1 == push(push(push(compile_expr(g.c, rhs), Op0("DUP")),
                        Op1("JUMPIFFALSE", sc)), Op0("POP"))
    IN  push(compile_expr(c1, lhs), Op1("LABEL", sc))

compile_and(c, lhs, rhs) ==
    LET g  == generate(c)
        sc == g.id
        c1 == push(push(push(compile_expr(g.c, lhs), Op0("DUP")),
                        Op1("JUMPIFFALSE", sc)), Op0("POP"))
    IN  push(compile_expr(c1, rhs), Op1("LABEL", sc))

compile_or(c, lhs, rhs) ==
    LET g  == generate(c)
        sc == g.id
        c1 == push(push(push(push(compile_expr(g.c, lhs), Op0("DUP")), Op0("NOT")),
                        Op1("JUMPIFFALSE", sc)), Op0("POP"))
    IN  push(compile_expr(c1, rhs), Op1("LABEL", sc))

compile_compound(c, lhs, rhs, int_op, float_op) ==
    LET c1 == typed_op(compile_expr(compile_expr(c, rhs), lhs), lhs, int_op, float_op)
    IN  push(getref_expr(c1, lhs), Op0("ASSIGN"))

compile_binop(c, operator, lhs, rhs) ==
    CASE operator = "GreaterThan"    -> compile_arith(c, lhs, rhs, "IGTR", "FGTR")
      [] operator = "LessThan"       -> compile_arith(c, lhs, rhs, "ILSS", "FLSS")
      [] operator = "Assignment"     -> compile_assignment(c, lhs, rhs)
      [] operator = "Addition"       -> compile_arith(c, lhs, rhs, "IADD", "FADD")
      [] operator = "Subtraction"    -> compile_arith(c, lhs, rhs, "ISUB", "FSUB")
      [] operator = "Division"       -> compile_arith(c, lhs, rhs, "IDIV", "FDIV")
      [] operator = "Multiplication" -> compile_arith(c, lhs, rhs, "IMUL", "FMUL")
      [] operator = "Equality"       ->
           push(compile_expr(compile_expr(c, lhs), rhs), Op0("EQUALS"))
      [] operator = "Modulo"         -> compile_modulo(c, lhs, rhs)
      [] operator = "NotEqual"       ->
           push(push(compile_expr(compile_expr(c, lhs), rhs), Op0("EQUALS")), Op0("NOT"))
      [] operator = "Not"            ->
           push(compile_expr(compile_expr(c, lhs), rhs), Op0("NOT"))
      [] operator = "GtrOrEqu"       -> compile_or_equal(c, lhs, rhs, "IGTR", "FGTR")
      [] operator = "LssOrEqu"       -> compile_or_equal(c, lhs, rhs, "ILSS", "FLSS")
      [] operator = "And"            -> compile_and(c, lhs, rhs)
      [] operator = "Or"             -> compile_or(c, lhs, rhs)
      [] operator = "AdditionAssignment"    -> compile_compound(c, lhs, rhs, "IADD", "FADD")
      [] operator = "SubtractionAssignment" -> compile_compound(c, lhs, rhs, "ISUB", "FSUB")
      [] OTHER                       -> abort(c)

(* closure_child seeding the captured names ahead of the parameters        *)
closure_child_captures_first(c, parameters, captured) ==
    [c EXCEPT !.variables = insert_all(insert_all(table_new, captured), parameters),
              !.asm = <<>>]

(* the child context a closure body is compiled in                         *)
closure_child(c, parameters, captured) ==
    [c EXCEPT !.variables = insert_all(insert_all(table_new, parameters), captured),
              !.asm = <<>>]

(* one GET per captured name, resolved in the enclosing scope              *)
RECURSIVE closure_fetch(_, _)
closure_fetch(c, captured) ==
    IF captured = <<>> \/ ~c.ok THEN c
    ELSE LET index == get_index(c.variables, Head(captured))
         IN  IF index # None
             THEN closure_fetch(push(c, Op1("GET", index)), Tail(captured))
             ELSE abort(c)

(* splice without the merge of the child's label generator                *)
splice_keeps_gen(c, child) ==
    IF c.ok THEN [c EXCEPT !.asm = @ \o asm_pop(child).asm] ELSE c

(* the child's label generator is merged back, its trailing terminator is  *)
(* dropped and its instructions are spliced in                             *)
splice(c, child) ==
    IF c.ok THEN [c EXCEPT !.gen = child.gen, !.asm = @ \o asm_pop(child).asm] ELSE c

compile_closure(c, parameters, body, captured) ==
    LET fc0 == closure_child(c, parameters, captured)
        c1  == push(closure_fetch(c, captured), Op1("LIST", Len(captured)))
        g   == generate(fc0)
        closurejump == g.id
        c2  == push(c1, Op1("CLOSURE", closurejump))
        fc  == IF c2.ok THEN compile_program(g.c, body, TRUE, FALSE, TRUE) ELSE g.c
        n   == Len(parameters) + Len(captured)
        extra == usize_sub(n, table_len(fc.variables))
        c3  == IF fc.ok /\ extra.ok THEN push(c2, Asm("OFFSET", n, extra.v, "")) ELSE abort(c2)
    IN  push(splice(c3, fc), Op1("LABEL", closurejump))

compile_expr(c, expr) ==
    IF ~c.ok THEN c
    ELSE CASE expr.k = "None" -> c
           [] expr.k = "ListConstructor" ->
                push(compile_list(c, expr.list), Op1("LIST", Len(expr.list)))
           [] expr.k = "Field" ->
                push(compile_expr(push(c, Op1("INTEGER", expr.fidx)), expr.from), Op0("LIN"))
           [] expr.k = "Indexed" ->
                push(compile_expr(compile_expr(c, expr.index), expr.from), Op0("LIN"))
           [] expr.k = "Call" ->
                push(getref_expr(compile_list(c, expr.arg), expr.from), Op0("CALL"))
           [] expr.k = "Unary" ->
                CASE expr.un = "Negitive" -> push(compile_expr(c, expr.expr), Op0("NEG"))
                  [] expr.un = "Not"      -> push(compile_expr(c, expr.expr), Op0("NOT"))
                  [] OTHER                -> abort(c)
           [] expr.k = "Binop"   -> compile_binop(c, expr.op, expr.lhs, expr.rhs)
           [] expr.k = "Literal" -> compile_atom(c, expr.atom)
           [] expr.k = "Closure" ->
                compile_closure(c, expr.parameters, expr.input, expr.captured)

-----------------------------------------------------------------------------
(* Compiler::compile_program: one definition per Statement arm             *)

(* a nested block compiled in the same context, its terminator popped      *)
nested(c, body) == asm_pop(compile_program(c, body, FALSE, FALSE, FALSE))

compile_let(c, identifier, expr) ==
    LET c1    == compile_expr(c, expr)
        index == get_index(c1.variables, identifier)
    IN  IF ~c1.ok THEN c1
        ELSE IF index # None THEN push(c1, Op1("STORE", index))
        ELSE LET c2 == [c1 EXCEPT !.variables = table_insert(@, identifier)]
             IN  push(c2, Op1("STORE", table_len(c2.variables) - 1))

(* function_child that keeps the enclosing locals                          *)
function_child_inherits(c, parameters) ==
    [c EXCEPT !.variables = insert_all(@, parameters), !.asm = <<>>]

(* the child context a function body is compiled in                        *)
function_child(c, parameters) ==
    [c EXCEPT !.variables = insert_all(table_new, parameters), !.asm = <<>>]

compile_function(c, identifier, parameters, body) ==
    LET c1  == [c EXCEPT !.global = table_insert(@, identifier)]
        g   == generate(function_child(c1, parameters))
        functionjump == g.id
        c2  == push(c1, Op1("FUNCTION", functionjump))
        fc  == compile_program(g.c, body, TRUE, FALSE, TRUE)
        extra == usize_sub(table_len(fc.variables), Len(parameters))
        c3  == IF fc.ok /\ extra.ok
               THEN push(c2, Asm("OFFSET", Len(parameters), extra.v, ""))
               ELSE abort(c2)
        c4  == push(splice(c3, fc), Op1("LABEL", functionjump))
    IN  push(c4, Op1("STOREGLOBAL", table_len(c4.global) - 1))

compile_struct(c, identifier, fields) ==
    LET c1 == [c EXCEPT !.global = table_insert(@, identifier)]
        g  == generate(c1)
        structjump == g.id
        c2 == push(g.c, Op1("FUNCTION", structjump))
        arity == usize_sub(Len(fields), 1)
        c3 == IF arity.ok THEN push(c2, Asm("OFFSET", arity.v, 0, "")) ELSE abort(c2)
        c4 == push(push(push(push(c3, Asm("STRING", 0, 0, identifier)),
                             Op1("LIST", Len(fields))),
                        Op1("RET", BoolArg(TRUE))),
                   Op1("LABEL", structjump))
    IN  push(c4, Op1("STOREGLOBAL", table_len(c4.global) - 1))

compile_return(c, ttype, expr) ==
    push(compile_expr(c, expr), Op1("RET", BoolArg(ttype # "Void")))

(* compile_if that leaves the terminator of each block in place            *)
compile_if_keeps_terminator(c, test, body, has_alternative, alternative) ==
    LET g1 == generate(c)
        g2 == generate(g1.c)
        bodyjump  == g1.id
        alterjump == g2.id
        c1 == push(compile_expr(g2.c, test), Op1("JUMPIFFALSE", bodyjump))
        c2 == compile_program(c1, body, FALSE, FALSE, FALSE)
    IN  IF has_alternative
        THEN LET c3 == push(push(c2, Op1("JMP", alterjump)), Op1("LABEL", bodyjump))
             IN  push(compile_program(c3, alternative, FALSE, FALSE, FALSE),
                      Op1("LABEL", alterjump))
        ELSE push(c2, Op1("LABEL", bodyjump))

compile_if(c, test, body, has_alternative, alternative) ==
    LET g1 == generate(c)
        g2 == generate(g1.c)
        bodyjump  == g1.id
        alterjump == g2.id
        c1 == push(compile_expr(g2.c, test), Op1("JUMPIFFALSE", bodyjump))
        c2 == nested(c1, body)
    IN  IF has_alternative
        THEN LET c3 == push(push(c2, Op1("JMP", alterjump)), Op1("LABEL", bodyjump))
             IN  push(nested(c3, alternative), Op1("LABEL", alterjump))
        ELSE push(c2, Op1("LABEL", bodyjump))

breaks_push(c, end) == IF c.ok THEN [c EXCEPT !.breaks = Append(@, end)] ELSE c

breaks_pop(c) ==
    IF c.ok /\ Len(c.breaks) > 0
    THEN [c EXCEPT !.breaks = SubSeq(@, 1, Len(@) - 1)]
    ELSE c

(* compile_while that leaves its end label on the break-target stack       *)
compile_while_keeps_target(c, test, body) ==
    LET g1  == generate(c)
        g2  == generate(g1.c)
        top == g1.id
        end == g2.id
        c1  == push(breaks_push(g2.c, end), Op1("LABEL", top))
        c2  == push(compile_expr(c1, test), Op1("JUMPIFFALSE", end))
    IN  push(push(nested(c2, body), Op1("BJMP", top)), Op1("LABEL", end))

compile_while(c, test, body) ==
    LET g1  == generate(c)
        g2  == generate(g1.c)
        top == g1.id
        end == g2.id
        c1  == push(breaks_push(g2.c, end), Op1("LABEL", top))
        c2  == push(compile_expr(c1, test), Op1("JUMPIFFALSE", end))
        c3  == push(push(nested(c2, body), Op1("BJMP", top)), Op1("LABEL", end))
    IN  breaks_pop(c3)

compile_for(c, init, test, inc, body) ==
    LET g1  == generate(c)
        g2  == generate(g1.c)
        top == g1.id
        end == g2.id
        c1  == push(compile_expr(breaks_push(g2.c, end), init), Op1("LABEL", top))
        c2  == push(compile_expr(c1, test), Op1("JUMPIFFALSE", end))
        c3  == compile_expr(nested(c2, body), inc)
        c4  == push(push(c3, Op1("BJMP", top)), Op1("LABEL", end))
    IN  breaks_pop(c4)

compile_break(c) ==
    IF Len(c.breaks) > 0 THEN push(c, Op1("JMP", c.breaks[Len(c.breaks)])) ELSE abort(c)

compile_statement(c, st) ==
    IF ~c.ok THEN c
    ELSE CASE st.s = "Pass"       -> c
           [] st.s = "Let"        -> compile_let(c, st.identifier, st.expr)
           [] st.s = "Function"   ->
                compile_function(c, st.identifier, st.parameters, st.input)
           [] st.s = "Struct"     -> compile_struct(c, st.identifier, st.fields)
           [] st.s = "Return"     -> compile_return(c, st.ttype, st.expr)
           [] st.s = "Expression" -> compile_expr(c, st.expr)
           [] st.s = "If"         ->
                compile_if(c, st.test, st.body, st.has_alternative, st.alternative)
           [] st.s = "While"      -> compile_while(c, st.test, st.body)
           [] st.s = "For"        -> compile_for(c, st.init, st.test, st.inc, st.body)
           [] st.s = "Break"      -> compile_break(c)
           [] st.s = "Continue"   -> abort(c)
           [] st.s = "Block"      -> nested(c, st.body)

compile_statements(c, program) ==
    IF program = <<>> THEN c
    ELSE compile_statements(compile_statement(c, Head(program)), Tail(program))

(* finalize with the two frame headers inserted in the opposite order      *)
finalize_locals_first(c, alloc, global, function) ==
    LET c1 == IF global
              THEN [c EXCEPT !.asm = <<Op1("ALLOCGLOBBALS", table_len(c.global))>> \o @]
              ELSE c
        c2 == IF ~function /\ alloc
              THEN [c1 EXCEPT !.asm = <<Op1("ALLOCLOCALS", table_len(c.variables))>> \o @]
              ELSE c1
    IN  IF c.ok THEN push(c2, Op1("RET", BoolArg(FALSE))) ELSE c

(* the code after the statement loop: frame headers and the terminator     *)
finalize(c, alloc, global, function) ==
    LET c1 == IF ~function /\ alloc
              THEN [c EXCEPT !.asm = <<Op1("ALLOCLOCALS", table_len(c.variables))>> \o @]
              ELSE c
        c2 == IF global
              THEN [c1 EXCEPT !.asm = <<Op1("ALLOCGLOBBALS", table_len(c.global))>> \o @]
              ELSE c1
    IN  IF c.ok THEN push(c2, Op1("RET", BoolArg(FALSE))) ELSE c

compile_program(c, program, alloc, global, function) ==
    finalize(compile_statements(c, program), alloc, global, function)

-----------------------------------------------------------------------------
(* The inputs: AST constructors and the statements the model compiles      *)

Lit(t, atom) == [k |-> "Literal", t |-> t, atom |-> atom]
IntLit(n)    == Lit("Int", [a |-> "Integer", v |-> n])
BoolLit(b)   == Lit("Bool", [a |-> "Bool", bv |-> b])
FloatLit(n)  == Lit("Float", [a |-> "Float", fv |-> n])
Id(t, name)  == Lit(t, [a |-> "Id", id |-> name])
CallAtom(t, caller, list) == Lit(t, [a |-> "Call", caller |-> caller, list |-> list])
Binop(t, op, lhs, rhs) == [k |-> "Binop", t |-> t, op |-> op, lhs |-> lhs, rhs |-> rhs]
Closure(parameters, body, captured) ==
    [k |-> "Closure", t |-> "Function", parameters |-> parameters,
     input |-> body, captured |-> captured]
NoExpr == [k |-> "None"]

Pass     == [s |-> "Pass"]
Break    == [s |-> "Break"]
Continue == [s |-> "Continue"]
Let(identifier, expr) == [s |-> "Let", identifier |-> identifier, expr |-> expr]
Function(identifier, parameters, body) ==
    [s |-> "Function", identifier |-> identifier, parameters |-> parameters, input |-> body]
Struct(identifier, fields) == [s |-> "Struct", identifier |-> identifier, fields |-> fields]
Return(ttype, expr) == [s |-> "Return", ttype |-> ttype, expr |-> expr]
Expression(expr) == [s |-> "Expression", expr |-> expr]
If(test, body) ==
    [s |-> "If", test |-> test, body |-> body, has_alternative |-> FALSE,
     alternative |-> <<>>]
IfElse(test, body, alternative) ==
    [s |-> "If", test |-> test, body |-> body, has_alternative |-> TRUE,
     alternative |-> alternative]
While(test, body) == [s |-> "While", test |-> test, body |-> body]
For(init, test, inc, body) ==
    [s |-> "For", init |-> init, test |-> test, inc |-> inc, body |-> body]
Block(body) == [s |-> "Block", body |-> body]

(* number of AST nodes of an expression / statement / statement list       *)
RECURSIVE ExprSize(_)
RECURSIVE ListSize(_)
RECURSIVE StmtSize(_)
RECURSIVE BodySize(_)
ListSize(list) == IF list = <<>> THEN 0 ELSE ExprSize(Head(list)) + ListSize(Tail(list))
ExprSize(e) ==
    CASE e.k = "None"    -> 1
      [] e.k = "Literal" -> 1 + (IF e.atom.a = "Call" THEN ListSize(e.atom.list) ELSE 0)
      [] e.k = "Binop"   -> 1 + ExprSize(e.lhs) + ExprSize(e.rhs)
      [] e.k = "Unary"   -> 1 + ExprSize(e.expr)
      [] e.k = "Closure" -> 1 + BodySize(e.input)
      [] e.k = "ListConstructor" -> 1 + ListSize(e.list)
      [] e.k = "Field"   -> 1 + ExprSize(e.from)
      [] e.k = "Indexed" -> 1 + ExprSize(e.index) + ExprSize(e.from)
      [] e.k = "Call"    -> 1 + ExprSize(e.from) + ListSize(e.arg)
BodySize(body) == IF body = <<>> THEN 0 ELSE StmtSize(Head(body)) + BodySize(Tail(body))
StmtSize(st) ==
    CASE st.s \in {"Pass", "Break", "Continue"} -> 1
      [] st.s = "Struct" -> 2
      [] st.s \in {"Let", "Return", "Expression"} -> 1 + ExprSize(st.expr)
      [] st.s = "Function" -> 2 + BodySize(st.input)
      [] st.s = "If"    -> 1 + ExprSize(st.test) + BodySize(st.body) + BodySize(st.alternative)
      [] st.s = "While" -> 1 + ExprSize(st.test) + BodySize(st.body)
      [] st.s = "For"   -> 1 + ExprSize(st.init) + ExprSize(st.test) + ExprSize(st.inc)
                             + BodySize(st.body)
      [] st.s = "Block" -> 1 + BodySize(st.body)

(* native functions the host registers (native/src/io.rs)                  *)
NativeFunctions == <<"read_line", "read_file">>

X == Id("Int", "x")
Y == Id("Int", "y")
T == BoolLit(TRUE)
F == BoolLit(FALSE)
One == IntLit(1)

Lets == {Let("x", One), Let("y", IntLit(2)), Let("read_file", One)}

Closures ==
    {Closure(<<"p">>, b, <<"x", "y">>) :
        b \in { <<>>, <<Let("q", One)>>, <<Break>>, <<Expression(Y)>>,
                <<Function("g", <<>>, <<>>)>>, <<If(T, <<Pass>>)>> }}
      \cup {Closure(<<"x">>, <<Expression(X)>>, <<"x">>),
            Closure(<<"p">>, <<Expression(X)>>, <<"x">>),
            Closure(<<>>, <<>>, <<"z">>),
            Closure(<<>>, <<Expression(Closure(<<>>, <<>>, <<>>))>>, <<>>)}

Atoms == {X, Id("Int", "f"), Id("Int", "z")}

Calls ==
    {CallAtom("Int", n, <<One, X>>) :
        n \in {"print", "free", "clone", "super::print", "super::free", "super::clone"}}
      \cup {CallAtom("Int", n, <<One>>) : n \in {"read_file", "f", "x", "z"}}

Logical ==
    {Binop("Bool", "And", a, b) : a \in {T, F}, b \in {T, F}}
      \cup {Binop("Bool", "Or", T, F), Binop("Bool", "Or", F, T),
            Binop("Bool", "And", Binop("Bool", "And", T, F), T),
            Binop("Bool", "And", T, Binop("Bool", "Or", F, T))}

Assignments ==
    {Binop("Int", op, X, One) :
        op \in {"Assignment", "AdditionAssignment", "SubtractionAssignment"}}

(* the seven type-directed operators, over integer and floating operands    *)
TypedOperators ==
    {"Addition", "Subtraction", "Multiplication", "Division", "Modulo",
     "GreaterThan", "LessThan"}

Arithmetic ==
    {Binop("Int", op, IntLit(2), One) : op \in TypedOperators}
      \cup {Binop("Float", op, FloatLit(2), FloatLit(1)) : op \in TypedOperators}

(* a >= b and a <= b over integer literals: a < b, a = b and a > b          *)
OrEquals ==
    {Binop("Bool", op, IntLit(a), IntLit(b)) :
        op \in {"GtrOrEqu", "LssOrEqu"}, a \in 1..2, b \in 1..2}

Compounds ==
    {Binop("Int", op, X, IntLit(2)) : op \in {"AdditionAssignment", "SubtractionAssignment"}}

LocalClosures ==
    {Closure(<<"p">>, <<Let("q", One)>>, <<>>),
     Closure(<<>>, <<Let("q", One), Let("q", One)>>, <<>>)}

Exprs ==
    Atoms \cup Calls \cup Logical \cup Closures \cup Assignments \cup {NoExpr}
      \cup Arithmetic \cup OrEquals \cup Compounds \cup LocalClosures

Expressions == {Expression(e) : e \in Exprs}

Functions ==
    { Function("f", <<>>, <<>>), Function("f", <<"p">>, <<Let("q", One)>>),
      Function("f", <<"p">>, <<Let("q", One), Let("p", One)>>),
      Function("read_file", <<>>, <<Pass>>),
      Function("f", <<>>, <<Function("g", <<>>, <<>>)>>),
      Function("f", <<"x">>, <<Expression(Closure(<<>>, <<If(T, <<Pass>>)>>, <<"x">>))>>),
      Function("f", <<>>, <<Break>>), Function("f", <<>>, <<Let("x", X)>>) }

Structs == {Struct("s", <<"a", "b">>), Struct("x", <<>>)}

Returns == {Return("Void", NoExpr), Return("Int", One)}

Bodies == { <<Pass>>, <<Let("y", IntLit(2))>>, <<If(T, <<Pass>>)>> }

Ifs ==
    {If(T, b) : b \in Bodies} \cup {If(X, <<Expression(X)>>)}
      \cup {IfElse(T, b, a) : b \in Bodies, a \in Bodies}

(* loop bodies with nested loops and breaks at either level, with a break  *)
(* under a conditional, and with a function or closure declared inside     *)
LoopBodies ==
    { <<Break>>, <<While(F, <<Break>>)>>,
      <<While(F, <<Break>>), Break>>, <<While(F, <<Pass>>), Break>>,
      <<If(T, <<Break>>)>>,
      <<For(NoExpr, F, NoExpr, <<Break>>)>>,
      <<Function("f", <<>>, <<Break>>)>>,
      <<Function("f", <<>>, <<While(F, <<Break>>)>>)>>,
      <<Expression(Closure(<<>>, <<Break>>, <<>>))>> }

Whiles == {While(T, b) : b \in Bodies \cup LoopBodies}

Fors ==
    {For(i, T, NoExpr, b) : i \in {NoExpr, One}, b \in {<<>>, <<Break>>}}
      \cup {For(NoExpr, T, NoExpr, <<While(F, <<Break>>)>>),
            For(NoExpr, T, NoExpr, <<Function("f", <<>>, <<Break>>)>>)}

Blocks == {Block(b) : b \in Bodies}

-----------------------------------------------------------------------------
(* The state machine: a fresh Compiler whose native-function table the     *)
(* host has filled runs compile_program; each step is one iteration of the *)
(* statement loop, Returned is the code after the loop.                    *)

NoFlags == [alloc |-> FALSE, global |-> FALSE, function |-> FALSE, set |-> FALSE]

(* the flag triples compile_program is called with                         *)
Calls_flags ==
    { [alloc |-> TRUE,  global |-> TRUE,  function |-> FALSE, set |-> TRUE],
      [alloc |-> FALSE, global |-> FALSE, function |-> FALSE, set |-> TRUE] }

Init ==
    /\ self = [new EXCEPT !.native_functions = NativeFunctions]
    /\ status = "compiling"
    /\ input = <<>>
    /\ prev = self
    /\ flags = NoFlags
    /\ first_match \in BOOLEAN
    /\ overflow_checks \in BOOLEAN

Step(st) ==
    /\ status = "compiling"
    /\ BodySize(input) + StmtSize(st) <= MaxSize
    /\ self' = compile_statement(self, st)
    /\ status' = IF self'.ok THEN "compiling" ELSE "aborted"
    /\ input' = Append(input, st)
    /\ prev' = self
    /\ UNCHANGED <<flags, first_match, overflow_checks>>

StmtPass       == Step(Pass)
StmtLet        == \E st \in Lets : Step(st)
StmtFunction   == \E st \in Functions : Step(st)
StmtStruct     == \E st \in Structs : Step(st)
StmtReturn     == \E st \in Returns : Step(st)
StmtExpression == \E st \in Expressions : Step(st)
StmtIf         == \E st \in Ifs : Step(st)
StmtWhile      == \E st \in Whiles : Step(st)
StmtFor        == \E st \in Fors : Step(st)
StmtBreak      == Step(Break)
StmtContinue   == Step(Continue)
StmtBlock      == \E st \in Blocks : Step(st)

Returned ==
    /\ status = "compiling"
    /\ \E fl \in Calls_flags :
          /\ self' = finalize(self, fl.alloc, fl.global, fl.function)
          /\ flags' = fl
    /\ status' = "returned"
    /\ prev' = self
    /\ UNCHANGED <<input, first_match, overflow_checks>>

Next ==
    \/ StmtPass \/ StmtLet \/ StmtFunction \/ StmtStruct \/ StmtReturn
    \/ StmtExpression \/ StmtIf \/ StmtWhile \/ StmtFor \/ StmtBreak
    \/ StmtContinue \/ StmtBlock \/ Returned

Spec == Init /\ [][Next]_vars

-----------------------------------------------------------------------------
(* Vocabulary of the properties                                            *)

(* the statement of the last loop iteration and what it appended           *)
last == input[Len(input)]

Stepped == status = "compiling" /\ input # <<>>

Attempted == status \in {"compiling", "aborted"} /\ input # <<>>

Emit(c, c2) == SubSeq(c2.asm, Len(c.asm) + 1, Len(c2.asm))

emitted == Emit(prev, self)

(* label ids an instruction list mentions, and those it places             *)
LabelOps == {"LABEL", "JMP", "BJMP", "JUMPIFFALSE", "FUNCTION", "CLOSURE"}

LabelsOf(code) == {code[i].a : i \in {j \in 1..Len(code) : code[j].op \in LabelOps}}

Ret(b) == Op1("RET", BoolArg(b))

-----------------------------------------------------------------------------
(* C1: a program compiled with alloc = true, global = true, function =     *)
(* false starts with ALLOCGLOBBALS(g), ALLOCLOCALS(v), g and v the final   *)
(* lengths of the global and variables tables, carries the loop's          *)
(* instructions unchanged and ends with RET(false); `let x = 1` alone      *)
(* gives ALLOCGLOBBALS(0), ALLOCLOCALS(1), INTEGER(1), STORE(0),           *)
(* RET(false).                                                             *)
C1_FrameHeaders ==
    (status = "returned" /\ flags.alloc /\ flags.global /\ ~flags.function) =>
        /\ self.asm = <<Op1("ALLOCGLOBBALS", Len(self.global)),
                        Op1("ALLOCLOCALS", Len(self.variables))>>
                      \o prev.asm \o <<Ret(FALSE)>>
        /\ (input = <<Let("x", One)>> =>
               self.asm = <<Op1("ALLOCGLOBBALS", 0), Op1("ALLOCLOCALS", 1),
                            Op1("INTEGER", 1), Op1("STORE", 0), Ret(FALSE)>>)

C1_Witness ==
    /\ status = "returned" /\ flags.alloc /\ flags.global /\ ~flags.function
    /\ input = <<Let("x", One)>>

-----------------------------------------------------------------------------
(* C2: a conditional emits test, JUMPIFFALSE(L1), primary block, and then  *)
(* either JMP(L2), LABEL(L1), alternative block, LABEL(L2) or, without an  *)
(* alternative, just LABEL(L1); neither block keeps the RET(false) that    *)
(* compiling it appended, and L1, L2 are distinct ids used nowhere before. *)
C2_Parts(L1, L2) ==
    LET ct == compile_expr([prev EXCEPT !.gen = IF L1 > L2 THEN L1 + 1 ELSE L2 + 1],
                           last.test)
        c1 == push(ct, Op1("JUMPIFFALSE", L1))
        cb == compile_statements(c1, last.body)
        c2 == push(push(cb, Op1("JMP", L2)), Op1("LABEL", L1))
        ca == compile_statements(c2, last.alternative)
    IN  [test |-> Emit(prev, ct), body |-> Emit(c1, cb), alternative |-> Emit(c2, ca)]

C2_Conditional ==
    (Stepped /\ last.s = "If") =>
        \E L1, L2 \in 0..self.gen :
            LET part == C2_Parts(L1, L2)
            IN  /\ L1 # L2
                /\ {L1, L2} \cap (LabelsOf(prev.asm) \cup LabelsOf(part.test)
                      \cup LabelsOf(part.body) \cup LabelsOf(part.alternative)) = {}
                /\ emitted =
                     IF last.has_alternative
                     THEN part.test \o <<Op1("JUMPIFFALSE", L1)>> \o part.body
                            \o <<Op1("JMP", L2), Op1("LABEL", L1)>>
                            \o part.alternative \o <<Op1("LABEL", L2)>>
                     ELSE part.test \o <<Op1("JUMPIFFALSE", L1)>> \o part.body
                            \o <<Op1("LABEL", L1)>>

C2_Witness ==
    /\ Stepped
    /\ last = IfElse(T, <<Pass>>, <<Let("y", IntLit(2))>>)
    /\ Len(emitted) = 7
    /\ emitted[2].op = "JUMPIFFALSE"
    /\ emitted[3].op = "JMP"

-----------------------------------------------------------------------------
(* The stack machine the instructions are written for, as far as the       *)
(* properties execute code: values are [t, v] pairs, JUMPIFFALSE pops its  *)
(* condition and jumps when it is the boolean false, LABEL is a no-op.     *)
(* `seen` collects the positions executed; an opcode outside this          *)
(* fragment, or a missing operand, stops the run with ok = FALSE.          *)

BoolVal(b) == [t |-> "Bool", v |-> BoolArg(b)]
IntVal(n)  == [t |-> "Int", v |-> n]
Falsy(val) == val = BoolVal(FALSE)

LabelPos(code, l) == CHOOSE i \in 1..Len(code) : code[i] = Op1("LABEL", l)

Pop(stack, n) == SubSeq(stack, 1, Len(stack) - n)
Top(stack)  == stack[Len(stack)]
Under(stack) == stack[Len(stack) - 1]

Arity(op) ==
    CASE op \in {"BOOL", "INTEGER", "LABEL", "JMP"} -> 0
      [] op \in {"DUP", "POP", "NOT", "JUMPIFFALSE"} -> 1
      [] op \in {"EQUALS", "IGTR", "ILSS", "IADD", "ISUB"} -> 2
      [] OTHER -> -1

RECURSIVE Run(_, _, _, _)
Run(code, pc, stack, seen) ==
    IF pc > Len(code) THEN [stack |-> stack, seen |-> seen, ok |-> TRUE]
    ELSE LET i    == code[pc]
             here == seen \cup {pc}
         IN  IF Arity(i.op) < 0 \/ Len(stack) < Arity(i.op)
                \/ (i.op \in {"JMP", "JUMPIFFALSE"}
                      /\ Op1("LABEL", i.a) \notin {code[j] : j \in 1..Len(code)})
             THEN [stack |-> stack, seen |-> here, ok |-> FALSE]
             ELSE CASE i.op = "BOOL"    -> Run(code, pc + 1, Append(stack, [t |-> "Bool", v |-> i.a]), here)
                    [] i.op = "INTEGER" -> Run(code, pc + 1, Append(stack, IntVal(i.a)), here)
                    [] i.op = "LABEL"   -> Run(code, pc + 1, stack, here)
                    [] i.op = "JMP"     -> Run(code, LabelPos(code, i.a), stack, here)
                    [] i.op = "DUP"     -> Run(code, pc + 1, Append(stack, Top(stack)), here)
                    [] i.op = "POP"     -> Run(code, pc + 1, Pop(stack, 1), here)
                    [] i.op = "NOT"     ->
                         Run(code, pc + 1, Append(Pop(stack, 1), BoolVal(Falsy(Top(stack)))), here)
                    [] i.op = "JUMPIFFALSE" ->
                         Run(code, IF Falsy(Top(stack)) THEN LabelPos(code, i.a) ELSE pc + 1,
                             Pop(stack, 1), here)
                    [] i.op = "EQUALS"  ->
                         Run(code, pc + 1,
                             Append(Pop(stack, 2), BoolVal(Under(stack) = Top(stack))), here)
                    [] i.op = "IGTR"    ->
                         Run(code, pc + 1,
                             Append(Pop(stack, 2), BoolVal(Under(stack).v > Top(stack).v)), here)
                    [] i.op = "ILSS"    ->
                         Run(code, pc + 1,
                             Append(Pop(stack, 2), BoolVal(Under(stack).v < Top(stack).v)), here)
                    [] i.op = "IADD"    ->
                         Run(code, pc + 1,
                             Append(Pop(stack, 2), IntVal(Under(stack).v + Top(stack).v)), here)
                    [] i.op = "ISUB"    ->
                         Run(code, pc + 1,
                             Append(Pop(stack, 2), IntVal(Under(stack).v - Top(stack).v)), here)

Exec(code) == Run(code, 1, <<>>, {})

-----------------------------------------------------------------------------
(* C3: `a && b` emits [a], DUP, JUMPIFFALSE(L), POP, [b], LABEL(L) with L   *)
(* used by no other instruction; run on the stack machine it leaves a's    *)
(* value without executing any instruction of b when a is falsy, and b's   *)
(* value otherwise.                                                        *)
C3_Parts(L) ==
    LET ca == compile_expr([prev EXCEPT !.gen = L + 1], last.expr.lhs)
        c1 == push(push(push(ca, Op0("DUP")), Op1("JUMPIFFALSE", L)), Op0("POP"))
        cb == compile_expr(c1, last.expr.rhs)
    IN  [a |-> Emit(prev, ca), b |-> Emit(c1, cb)]

C3_IsAnd ==
    /\ last.s = "Expression"
    /\ last.expr.k = "Binop"
    /\ last.expr.op = "And"

C3_ShortCircuitAnd ==
    (Stepped /\ C3_IsAnd) =>
        \E L \in 0..self.gen :
            LET part == C3_Parts(L)
                run  == Exec(emitted)
                ra   == Exec(part.a)
                rb   == Exec(part.b)
                bpos == (Len(part.a) + 4)..(Len(part.a) + 3 + Len(part.b))
            IN  /\ L \notin LabelsOf(prev.asm) \cup LabelsOf(part.a) \cup LabelsOf(part.b)
                /\ emitted = part.a \o <<Op0("DUP"), Op1("JUMPIFFALSE", L), Op0("POP")>>
                               \o part.b \o <<Op1("LABEL", L)>>
                /\ (ra.ok /\ rb.ok /\ Len(ra.stack) = 1 /\ Len(rb.stack) = 1) =>
                      /\ run.ok
                      /\ run.stack = IF Falsy(ra.stack[1]) THEN ra.stack ELSE rb.stack
                      /\ Falsy(ra.stack[1]) => run.seen \cap bpos = {}

C3_Witness ==
    /\ Stepped
    /\ last = Expression(Binop("Bool", "And", Binop("Bool", "And", T, F), T))
    /\ Exec(emitted).stack = <<BoolVal(FALSE)>>

C3_WitnessTruthy ==
    /\ Stepped
    /\ last = Expression(Binop("Bool", "And", T, Binop("Bool", "Or", F, T)))
    /\ Exec(emitted).stack = <<BoolVal(TRUE)>>

-----------------------------------------------------------------------------
(* C4: `break` compiled with an empty break-target stack comes back as an  *)
(* error value; the process is not aborted.                                *)
C4_BreakOutsideLoopIsError ==
    (Attempted /\ last.s = "Break" /\ prev.breaks = <<>>) => status # "aborted"

-----------------------------------------------------------------------------
(* The symbolic stack-depth simulator: the net number of values an         *)
(* instruction list leaves, the body between FUNCTION(l) / CLOSURE(l) and  *)
(* LABEL(l) being skipped as the machine skips it.                         *)

StackEffect(i) ==
    CASE i.op \in {"INTEGER", "FLOAT", "BOOL", "STRING", "GET", "GETGLOBAL",
                   "STACKREF", "DUP", "FUNCTION"} -> 1
      [] i.op \in {"POP", "STORE", "STOREGLOBAL", "JUMPIFFALSE", "PRINT", "FREE",
                   "IADD", "FADD", "ISUB", "FSUB", "IMUL", "FMUL", "IDIV", "FDIV",
                   "IMODULO", "IGTR", "FGTR", "ILSS", "FLSS", "EQUALS", "LIN", "PIN"} -> -1
      [] i.op = "ASSIGN" -> -2
      [] i.op = "LIST"   -> 1 - i.a
      [] i.op = "RET"    -> 0 - i.a
      [] OTHER -> 0

RECURSIVE NetDepth(_, _)
NetDepth(code, pc) ==
    IF pc > Len(code) THEN 0
    ELSE LET i == code[pc]
         IN  IF i.op \in {"FUNCTION", "CLOSURE"}
                  /\ \E j \in (pc + 1)..Len(code) : code[j] = Op1("LABEL", i.a)
             THEN StackEffect(i)
                    + NetDepth(code, 1 + CHOOSE j \in (pc + 1)..Len(code) :
                                            code[j] = Op1("LABEL", i.a))
             ELSE StackEffect(i) + NetDepth(code, pc + 1)

(* C5: the instructions of a statement have net stack depth zero, those of *)
(* an expression net depth one.                                            *)
C5_NetStackDepth ==
    Stepped =>
        /\ NetDepth(emitted, 1) = 0
        /\ last.s = "Expression" =>
              NetDepth(Emit(prev, compile_expr(prev, last.expr)), 1) = 1

-----------------------------------------------------------------------------
(* C6: for a closure with parameters P and captured names C, the enclosing *)
(* scope emits one GET per name of C, in order and with the enclosing slot *)
(* of that name, then LIST(|C|) and CLOSURE(L); the body is compiled in a  *)
(* context whose variables table is P followed by C.                       *)
C6_IsClosure == last.s = "Expression" /\ last.expr.k = "Closure"

C6_Body(L) ==
    compile_statements([prev EXCEPT !.variables = last.expr.parameters \o last.expr.captured,
                                    !.asm = <<>>, !.gen = L + 1],
                       last.expr.input).asm

C6_ClosureCapture ==
    (Stepped /\ C6_IsClosure) =>
        LET C == last.expr.captured
            n == Len(C)
        IN  /\ Len(emitted) >= n + 4
            /\ \A i \in 1..n :
                  /\ emitted[i].op = "GET"
                  /\ emitted[i].a + 1 \in 1..Len(prev.variables)
                  /\ prev.variables[emitted[i].a + 1] = C[i]
            /\ emitted[n + 1] = Op1("LIST", n)
            /\ emitted[n + 2].op = "CLOSURE"
            /\ emitted[n + 3].op = "OFFSET"
            /\ SubSeq(emitted, n + 4, Len(emitted) - 1) = C6_Body(emitted[n + 2].a)
            /\ emitted[Len(emitted)] = Op1("LABEL", emitted[n + 2].a)

C6_Witness ==
    /\ Stepped
    /\ last = Expression(Closure(<<"p">>, <<Expression(X)>>, <<"x">>))
    /\ emitted = <<Op1("GET", 0), Op1("LIST", 1), Op1("CLOSURE", 0),
                   Asm("OFFSET", 2, 0, ""), Op1("GET", 1), Op1("LABEL", 0)>>

C6_WitnessOrder ==
    /\ Stepped
    /\ last = Expression(Closure(<<"p">>, <<>>, <<"x", "y">>))
    /\ prev.variables = <<"y", "x">>
    /\ SubSeq(emitted, 1, 3) = <<Op1("GET", 1), Op1("GET", 0), Op1("LIST", 2)>>

-----------------------------------------------------------------------------
(* C7: no label id is placed by two LABEL instructions or opened by two    *)
(* FUNCTION / CLOSURE instructions, and every construct that generates     *)
(* label ids got ids of its own: the ids in use are exactly as many as the *)
(* constructs of the program asked for, nested bodies included.            *)

RECURSIVE ExprLabels(_)
RECURSIVE ListLabels(_)
RECURSIVE BodyLabels(_)
RECURSIVE StmtLabels(_)
ListLabels(list) ==
    IF list = <<>> THEN 0 ELSE ExprLabels(Head(list)) + ListLabels(Tail(list))
ExprLabels(e) ==
    CASE e.k = "None"    -> 0
      [] e.k = "Literal" -> IF e.atom.a = "Call" THEN ListLabels(e.atom.list) ELSE 0
      [] e.k = "Binop"   ->
           CASE e.op \in {"And", "Or"} -> 1 + ExprLabels(e.lhs) + ExprLabels(e.rhs)
             [] e.op \in {"GtrOrEqu", "LssOrEqu"} ->
                  1 + 2 * (ExprLabels(e.lhs) + ExprLabels(e.rhs))
             [] e.op \in {"AdditionAssignment", "SubtractionAssignment"} ->
                  ExprLabels(e.rhs) + ExprLabels(e.lhs)
             [] e.op = "Assignment" -> ExprLabels(e.rhs)
             [] OTHER -> ExprLabels(e.lhs) + ExprLabels(e.rhs)
      [] e.k = "Unary"   -> ExprLabels(e.expr)
      [] e.k = "Closure" -> 1 + BodyLabels(e.input)
      [] e.k = "ListConstructor" -> ListLabels(e.list)
      [] e.k = "Field"   -> ExprLabels(e.from)
      [] e.k = "Indexed" -> ExprLabels(e.index) + ExprLabels(e.from)
      [] e.k = "Call"    -> ListLabels(e.arg)
BodyLabels(body) ==
    IF body = <<>> THEN 0 ELSE StmtLabels(Head(body)) + BodyLabels(Tail(body))
StmtLabels(st) ==
    CASE st.s \in {"Pass", "Break", "Continue"} -> 0
      [] st.s = "Struct" -> 1
      [] st.s \in {"Let", "Return", "Expression"} -> ExprLabels(st.expr)
      [] st.s = "Function" -> 1 + BodyLabels(st.input)
      [] st.s = "If"    -> 2 + ExprLabels(st.test) + BodyLabels(st.body)
                             + BodyLabels(st.alternative)
      [] st.s = "While" -> 2 + ExprLabels(st.test) + BodyLabels(st.body)
      [] st.s = "For"   -> 2 + ExprLabels(st.init) + ExprLabels(st.test)
                             + ExprLabels(st.inc) + BodyLabels(st.body)
      [] st.s = "Block" -> BodyLabels(st.body)

Placed(code, ops) == SelectSeq(code, LAMBDA i : i.op \in ops)

Distinct(code) == \A i, j \in 1..Len(code) : code[i] = code[j] => i = j

C7_UniqueLabels ==
    self.ok =>
        /\ Distinct(Placed(self.asm, {"LABEL"}))
        /\ Distinct(Placed(self.asm, {"FUNCTION", "CLOSURE"}))
        /\ Cardinality(LabelsOf(self.asm)) <= BodyLabels(input)
        /\ self.gen = BodyLabels(input)

C7_Witness ==
    /\ Stepped
    /\ input = <<Function("f", <<>>, <<Function("g", <<>>, <<>>)>>), Struct("s", <<"a", "b">>)>>
    /\ Cardinality(LabelsOf(self.asm)) = 3

-----------------------------------------------------------------------------
(* C8: compiling a function declaration or a closure leaves the enclosing  *)
(* variables table and break-target stack as they were; the global table   *)
(* gains exactly the function's name (nothing for a closure); the body is  *)
(* compiled against a variables table holding the parameters (then the     *)
(* captures) and no enclosing local, and none of its bindings is           *)
(* resolvable in the enclosing scope afterwards.                           *)
C8_FunctionBody(L) ==
    compile_statements([prev EXCEPT !.global = Append(@, last.identifier),
                                    !.variables = last.parameters,
                                    !.asm = <<>>, !.gen = L + 1],
                       last.input).asm

C8_Names == {"x", "y", "p", "q", "f", "g", "z", "read_file"}

C8_FrameIsolation ==
    /\ (Stepped /\ last.s = "Function") =>
          /\ self.variables = prev.variables
          /\ self.breaks = prev.breaks
          /\ self.global = Append(prev.global, last.identifier)
          /\ \A n \in C8_Names : table_has(self.variables, n) = table_has(prev.variables, n)
          /\ Len(emitted) >= 4
          /\ emitted[1].op = "FUNCTION"
          /\ emitted[2].op = "OFFSET"
          /\ SubSeq(emitted, 3, Len(emitted) - 2) = C8_FunctionBody(emitted[1].a)
    /\ (Stepped /\ C6_IsClosure) =>
          /\ self.variables = prev.variables
          /\ self.breaks = prev.breaks
          /\ self.global = prev.global
          /\ \A n \in C8_Names : table_has(self.variables, n) = table_has(prev.variables, n)
          /\ LET n == Len(last.expr.captured)
             IN  SubSeq(emitted, n + 4, Len(emitted) - 1) = C6_Body(emitted[n + 2].a)

C8_Witness ==
    /\ Stepped
    /\ last = Function("f", <<>>, <<Let("x", X)>>)
    /\ prev.variables = <<"x">>
    /\ self.variables = <<"x">>
    /\ emitted = <<Op1("FUNCTION", 0), Asm("OFFSET", 0, 1, ""), Op1("STORE", 0),
                   Op1("LABEL", 0), Op1("STOREGLOBAL", 0)>>

-----------------------------------------------------------------------------
(* C9: an identifier in value context emits GET(slot) when the name is a   *)
(* local, else GETGLOBAL(slot) when it is a global, and else compilation   *)
(* fails: it never succeeds with nothing emitted.                          *)
C9_IsId ==
    /\ last.s = "Expression"
    /\ last.expr.k = "Literal"
    /\ last.expr.atom.a = "Id"

C9_IdentifierResolves ==
    (Attempted /\ C9_IsId) =>
        LET name == last.expr.atom.id
        IN  IF table_has(prev.variables, name)
            THEN status = "compiling"
                   /\ emitted = <<Op1("GET", get_index(prev.variables, name))>>
            ELSE IF table_has(prev.global, name)
            THEN status = "compiling"
                   /\ emitted = <<Op1("GETGLOBAL", get_index(prev.global, name))>>
            ELSE status # "compiling"

-----------------------------------------------------------------------------
(* C10: a call atom emits its arguments left to right and then: PRINT,     *)
(* FREE or CLONE for print / free / clone and for super::print /           *)
(* super::free / super::clone; else NATIVE(slot) for a native function;    *)
(* else GET(slot), CALL for a local; else DCALL(slot) for a global.        *)
C10_IsCall ==
    /\ last.s = "Expression"
    /\ last.expr.k = "Literal"
    /\ last.expr.atom.a = "Call"

C10_Callee(caller) ==
    CASE caller \in {"print", "super::print"} -> <<Op0("PRINT")>>
      [] caller \in {"free", "super::free"}   -> <<Op0("FREE")>>
      [] caller \in {"clone", "super::clone"} -> <<Op0("CLONE")>>
      [] OTHER ->
           IF table_has(prev.native_functions, caller)
           THEN <<Op1("NATIVE", get_index(prev.native_functions, caller))>>
           ELSE IF table_has(prev.variables, caller)
           THEN <<Op1("GET", get_index(prev.variables, caller)), Op0("CALL")>>
           ELSE <<Op1("DCALL", get_index(prev.global, caller))>>

C10_Resolvable(caller) ==
    \/ caller \in {"print", "free", "clone", "super::print", "super::free", "super::clone"}
    \/ table_has(prev.native_functions, caller)
    \/ table_has(prev.variables, caller)
    \/ table_has(prev.global, caller)

C10_CallDispatch ==
    (Attempted /\ C10_IsCall /\ C10_Resolvable(last.expr.atom.caller)) =>
        /\ status = "compiling"
        /\ emitted = Emit(prev, compile_list(prev, last.expr.atom.list))
                       \o C10_Callee(last.expr.atom.caller)

-----------------------------------------------------------------------------
(* The integer and the floating variant of each type-directed operator     *)
C11_IntOp(op) ==
    CASE op = "Addition"       -> "IADD"
      [] op = "Subtraction"    -> "ISUB"
      [] op = "Multiplication" -> "IMUL"
      [] op = "Division"       -> "IDIV"
      [] op = "Modulo"         -> "IMODULO"
      [] op = "GreaterThan"    -> "IGTR"
      [] op = "LessThan"       -> "ILSS"

C11_FloatOp(op) ==
    CASE op = "Addition"       -> "FADD"
      [] op = "Subtraction"    -> "FSUB"
      [] op = "Multiplication" -> "FMUL"
      [] op = "Division"       -> "FDIV"
      [] op = "Modulo"         -> "FMODULO"
      [] op = "GreaterThan"    -> "FGTR"
      [] op = "LessThan"       -> "FLSS"

C11_IsTyped ==
    /\ last.s = "Expression"
    /\ last.expr.k = "Binop"
    /\ last.expr.op \in TypedOperators
    /\ get_type(last.expr.lhs) \in {"Int", "Float"}

C11_Operands ==
    LET cl == compile_expr(prev, last.expr.lhs)
        cr == compile_expr(cl, last.expr.rhs)
    IN  Emit(prev, cl) \o Emit(cl, cr)

(* C11: each of + - * / % > < emits the left operand, the right operand    *)
(* and then exactly one opcode: the integer variant when the left operand  *)
(* is an Int, the floating variant when it is a Float; modulo included.    *)
C11_TypeDirectedOpcode ==
    (Stepped /\ C11_IsTyped) =>
        emitted = C11_Operands
                    \o <<Op0(IF get_type(last.expr.lhs) = "Int"
                             THEN C11_IntOp(last.expr.op)
                             ELSE C11_FloatOp(last.expr.op))>>

(* the same for the six operators other than modulo, and for modulo over   *)
(* integers                                                                *)
C11_ExceptFloatModulo ==
    (Stepped /\ C11_IsTyped
       /\ ~(last.expr.op = "Modulo" /\ get_type(last.expr.lhs) = "Float")) =>
        emitted = C11_Operands
                    \o <<Op0(IF get_type(last.expr.lhs) = "Int"
                             THEN C11_IntOp(last.expr.op)
                             ELSE C11_FloatOp(last.expr.op))>>

-----------------------------------------------------------------------------
(* C12: for side-effect-free integer operands, `a >= b` (`a <= b`) emits   *)
(* [a], [b], IGTR (ILSS), DUP, NOT, JUMPIFFALSE(L), POP, [a], [b], EQUALS, *)
(* LABEL(L); run on the stack machine it leaves exactly one value, (a > b) *)
(* or (a = b) (respectively (a < b) or (a = b)): the fallback from POP to  *)
(* EQUALS is skipped when the strict comparison is true and executed       *)
(* otherwise.                                                              *)
C12_IsOrEqual ==
    /\ last.s = "Expression"
    /\ last.expr.k = "Binop"
    /\ last.expr.op \in {"GtrOrEqu", "LssOrEqu"}
    /\ get_type(last.expr.lhs) = "Int"
    /\ get_type(last.expr.rhs) = "Int"

C12_Parts(L) ==
    LET ca == compile_expr([prev EXCEPT !.gen = L + 1], last.expr.lhs)
        cb == compile_expr(ca, last.expr.rhs)
    IN  [a |-> Emit(prev, ca), b |-> Emit(ca, cb)]

C12_Strict(a, b) == IF last.expr.op = "GtrOrEqu" THEN a > b ELSE a < b

C12_OrEqual ==
    (Stepped /\ C12_IsOrEqual) =>
        \E L \in 0..self.gen :
            LET part   == C12_Parts(L)
                ops    == part.a \o part.b
                strict == IF last.expr.op = "GtrOrEqu" THEN "IGTR" ELSE "ILSS"
                run    == Exec(emitted)
                ra     == Exec(part.a)
                rb     == Exec(part.b)
                fallback == (Len(ops) + 5)..(2 * Len(ops) + 6)
            IN  /\ L \notin LabelsOf(prev.asm) \cup LabelsOf(ops)
                /\ emitted = ops \o <<Op0(strict), Op0("DUP"), Op0("NOT"),
                                      Op1("JUMPIFFALSE", L), Op0("POP")>>
                               \o ops \o <<Op0("EQUALS"), Op1("LABEL", L)>>
                /\ (ra.ok /\ rb.ok /\ Len(ra.stack) = 1 /\ Len(rb.stack) = 1) =>
                      LET a == ra.stack[1].v
                          b == rb.stack[1].v
                      IN  /\ run.ok
                          /\ run.stack = <<BoolVal(C12_Strict(a, b) \/ a = b)>>
                          /\ C12_Strict(a, b) => run.seen \cap fallback = {}
                          /\ ~C12_Strict(a, b) => fallback \subseteq run.seen

(* the equality fallback decides: 2 >= 2                                   *)
C12_Witness ==
    /\ Stepped
    /\ last = Expression(Binop("Bool", "GtrOrEqu", IntLit(2), IntLit(2)))
    /\ Exec(emitted).ok
    /\ Exec(emitted).stack = <<BoolVal(TRUE)>>
    /\ 8 \in Exec(emitted).seen

(* the strict comparison decides and the fallback is skipped: 1 <= 2       *)
C12_WitnessStrict ==
    /\ Stepped
    /\ last = Expression(Binop("Bool", "LssOrEqu", One, IntLit(2)))
    /\ Exec(emitted).stack = <<BoolVal(TRUE)>>
    /\ 8 \notin Exec(emitted).seen

(* neither holds: 1 >= 2                                                   *)
C12_WitnessFalse ==
    /\ Stepped
    /\ last = Expression(Binop("Bool", "GtrOrEqu", One, IntLit(2)))
    /\ Exec(emitted).stack = <<BoolVal(FALSE)>>

-----------------------------------------------------------------------------
(* Number of statements of the given kinds in a statement, the bodies of   *)
(* nested functions and closures included                                  *)
RECURSIVE ExprCount(_, _)
RECURSIVE ListCount(_, _)
RECURSIVE BodyCount(_, _)
RECURSIVE StmtCount(_, _)
ListCount(list, kinds) ==
    IF list = <<>> THEN 0 ELSE ExprCount(Head(list), kinds) + ListCount(Tail(list), kinds)
ExprCount(e, kinds) ==
    CASE e.k = "None"    -> 0
      [] e.k = "Literal" -> IF e.atom.a = "Call" THEN ListCount(e.atom.list, kinds) ELSE 0
      [] e.k = "Binop"   -> ExprCount(e.lhs, kinds) + ExprCount(e.rhs, kinds)
      [] e.k = "Unary"   -> ExprCount(e.expr, kinds)
      [] e.k = "Closure" -> BodyCount(e.input, kinds)
      [] e.k = "ListConstructor" -> ListCount(e.list, kinds)
      [] e.k = "Field"   -> ExprCount(e.from, kinds)
      [] e.k = "Indexed" -> ExprCount(e.index, kinds) + ExprCount(e.from, kinds)
      [] e.k = "Call"    -> ExprCount(e.from, kinds) + ListCount(e.arg, kinds)
BodyCount(body, kinds) ==
    IF body = <<>> THEN 0 ELSE StmtCount(Head(body), kinds) + BodyCount(Tail(body), kinds)
StmtCount(st, kinds) ==
    (IF st.s \in kinds THEN 1 ELSE 0) +
    CASE st.s \in {"Pass", "Break", "Continue", "Struct"} -> 0
      [] st.s \in {"Let", "Return", "Expression"} -> ExprCount(st.expr, kinds)
      [] st.s = "Function" -> BodyCount(st.input, kinds)
      [] st.s = "If"    -> ExprCount(st.test, kinds) + BodyCount(st.body, kinds)
                             + BodyCount(st.alternative, kinds)
      [] st.s = "While" -> ExprCount(st.test, kinds) + BodyCount(st.body, kinds)
      [] st.s = "For"   -> ExprCount(st.init, kinds) + ExprCount(st.test, kinds)
                             + ExprCount(st.inc, kinds) + BodyCount(st.body, kinds)
      [] st.s = "Block" -> BodyCount(st.body, kinds)

(* The loops of an instruction list: b is the position of a loop's BJMP,   *)
(* the LABEL after it places the loop's end label, and the loop spans from *)
(* the LABEL of its top label to b.                                        *)
LoopsOf(code) ==
    {b \in 1..(Len(code) - 1) : code[b].op = "BJMP" /\ code[b + 1].op = "LABEL"}

LoopTops(code, b) ==
    {t \in 1..Len(code) : code[t] = Op1("LABEL", code[b].a)}

LoopTop(code, b) == CHOOSE t \in LoopTops(code, b) : TRUE

LoopEnd(code, b) == code[b + 1].a

BreakJumps(code) ==
    {p \in 1..Len(code) :
        code[p].op = "JMP" /\ \E b \in LoopsOf(code) : LoopEnd(code, b) = code[p].a}

Enclosing(code, p) ==
    {b \in LoopsOf(code) : LoopTop(code, b) < p /\ p < b}

Innermost(code, p) ==
    CHOOSE b \in Enclosing(code, p) :
        \A b2 \in Enclosing(code, p) : LoopTop(code, b2) <= LoopTop(code, b)

(* C13: in the code of a while or for statement, however loops nest in it, *)
(* every BJMP(top) comes after the one LABEL(top) and right before the     *)
(* LABEL of the loop's end; every break is a JMP to the end label of the   *)
(* innermost loop around it, placed later than the JMP; and the            *)
(* break-target stack is afterwards what it was before the statement.      *)
C13_LoopTargets ==
    (Stepped /\ last.s \in {"While", "For"}) =>
        LET code == emitted
        IN  /\ \A i \in 1..Len(code) : code[i].op = "BJMP" =>
                  /\ i \in LoopsOf(code)
                  /\ Cardinality(LoopTops(code, i)) = 1
                  /\ LoopTop(code, i) < i
            /\ Cardinality(LoopsOf(code)) = StmtCount(last, {"While", "For"})
            /\ Cardinality(BreakJumps(code)) = StmtCount(last, {"Break"})
            /\ \A p \in BreakJumps(code) :
                  /\ Enclosing(code, p) # {}
                  /\ code[p].a = LoopEnd(code, Innermost(code, p))
                  /\ \E j \in (p + 1)..Len(code) : code[j] = Op1("LABEL", code[p].a)
                  /\ \A j \in 1..p : code[j] # Op1("LABEL", code[p].a)
            /\ self.breaks = prev.breaks

(* a break of the inner loop and, after the inner loop, a break of the     *)
(* outer one                                                               *)
C13_Witness ==
    /\ Stepped
    /\ last = While(T, <<While(F, <<Break>>), Break>>)
    /\ Len(emitted) = 12
    /\ emitted[7] = Op1("JMP", emitted[9].a)
    /\ emitted[10] = Op1("JMP", emitted[12].a)
    /\ emitted[9].a # emitted[12].a
    /\ self.breaks = <<>>

-----------------------------------------------------------------------------
(* The names a body binds with `let` in its own frame: bodies of nested    *)
(* conditionals, loops and blocks share the frame, those of nested         *)
(* functions and closures do not.                                          *)
RECURSIVE LetNames(_)
LetNames(body) ==
    IF body = <<>> THEN {}
    ELSE LET st == Head(body)
             here == CASE st.s = "Let"   -> {st.identifier}
                       [] st.s = "If"    -> LetNames(st.body) \cup LetNames(st.alternative)
                       [] st.s \in {"While", "For", "Block"} -> LetNames(st.body)
                       [] OTHER -> {}
         IN  here \cup LetNames(Tail(body))

(* new local slots of a body compiled with the given parameters            *)
NewLocals(parameters, body) ==
    Cardinality(LetNames(body) \ {parameters[i] : i \in 1..Len(parameters)})

C14_ClosureCompiles ==
    /\ \A i \in 1..Len(last.expr.captured) :
          table_has(prev.variables, last.expr.captured[i])
    /\ compile_statements([prev EXCEPT !.variables =
                                          last.expr.parameters \o last.expr.captured,
                                       !.asm = <<>>],
                          last.expr.input).ok

C14_FunctionCompiles ==
    compile_statements([prev EXCEPT !.global = Append(@, last.identifier),
                                    !.variables = last.parameters, !.asm = <<>>],
                       last.input).ok

(* a function with p parameters whose body binds k new locals emits        *)
(* OFFSET(p, k)                                                            *)
C14_FunctionArity ==
    (Attempted /\ last.s = "Function" /\ C14_FunctionCompiles) =>
        /\ status = "compiling"
        /\ emitted[2] = Asm("OFFSET", Len(last.parameters),
                            NewLocals(last.parameters, last.input), "")

(* a closure with p parameters and c captures whose body binds k new       *)
(* locals emits OFFSET(p + c, k)                                           *)
C14_ClosureArity ==
    (Attempted /\ C6_IsClosure /\ C14_ClosureCompiles) =>
        LET n == Len(last.expr.captured)
            P == last.expr.parameters \o last.expr.captured
        IN  /\ status = "compiling"
            /\ emitted[n + 3] = Asm("OFFSET", Len(P), NewLocals(P, last.expr.input), "")

(* C14: the arity / extra-slot record of a function carries its parameter  *)
(* count and the number of locals its body binds beyond them, that of a    *)
(* closure the parameters plus captures and the locals beyond those, for   *)
(* every number of such locals, computed without underflow.                *)
C14_ArityRecord == C14_FunctionArity /\ C14_ClosureArity

(* the closure half for bodies that bind no local of their own             *)
C14_ClosureArityNoLocals ==
    (Attempted /\ C6_IsClosure /\ C14_ClosureCompiles
       /\ NewLocals(last.expr.parameters \o last.expr.captured, last.expr.input) = 0) =>
        LET n == Len(last.expr.captured)
        IN  /\ status = "compiling"
            /\ emitted[n + 3] = Asm("OFFSET", Len(last.expr.parameters) + n, 0, "")

-----------------------------------------------------------------------------
(* The function and closure bodies of an instruction list: o is the        *)
(* position of FUNCTION(l) or CLOSURE(l), the body runs to the LABEL(l)    *)
(* that closes it.                                                         *)
BodiesOf(code) ==
    {o \in 1..Len(code) :
        /\ code[o].op \in {"FUNCTION", "CLOSURE"}
        /\ \E j \in (o + 1)..Len(code) : code[j] = Op1("LABEL", code[o].a)}

BodyClose(code, o) ==
    CHOOSE j \in (o + 1)..Len(code) : code[j] = Op1("LABEL", code[o].a)

(* C15: a break inside a function or closure body only jumps to the end    *)
(* label of a loop inside that body: no JMP between FUNCTION(l) /          *)
(* CLOSURE(l) and LABEL(l) targets a label placed outside them, and a      *)
(* body whose break is in no loop of its own does not compile to a jump to *)
(* the end label of a loop around the declaration.                         *)
C15_BreakStaysInBody ==
    self.ok =>
        \A o \in BodiesOf(self.asm) :
            \A p \in (o + 1)..(BodyClose(self.asm, o) - 1) :
                self.asm[p].op = "JMP" =>
                    \E j \in (o + 1)..(BodyClose(self.asm, o) - 1) :
                        self.asm[j] = Op1("LABEL", self.asm[p].a)

-----------------------------------------------------------------------------
(* C16: in a program compiled with global = true no two function or struct *)
(* declarations store to the same global slot, and every slot carried by   *)
(* STOREGLOBAL, GETGLOBAL or DCALL is below the N of the leading           *)
(* ALLOCGLOBBALS(N); function declarations nested in a function body and   *)
(* followed by further top-level declarations included.                    *)
C16_GlobalOps == {"STOREGLOBAL", "GETGLOBAL", "DCALL"}

C16_Slots ==
    /\ self.asm[1].op = "ALLOCGLOBBALS"
    /\ Distinct(Placed(self.asm, {"STOREGLOBAL"}))
    /\ \A i \in 1..Len(self.asm) :
          self.asm[i].op \in C16_GlobalOps =>
              self.asm[i].a >= 0 /\ self.asm[i].a < self.asm[1].a

C16_GlobalSlots ==
    (status = "returned" /\ flags.global) => C16_Slots

(* the same for programs none of whose declarations is nested in a body    *)
C16_TopLevelDeclarations ==
    (status = "returned" /\ flags.global
       /\ BodyCount(input, {"Function", "Struct"})
            = Cardinality({i \in 1..Len(input) : input[i].s \in {"Function", "Struct"}})) =>
        C16_Slots

-----------------------------------------------------------------------------
(* The stack machine over a frame of local slots, for straight-line code:  *)
(* GET(i) pushes the value of slot i, STACKREF(i) a reference to it, and   *)
(* ASSIGN pops a reference and, below it, the value it stores through the  *)
(* reference; ISUB / IADD combine the value below the top with the top.    *)
RefVal(i) == [t |-> "Ref", v |-> i]

FrameArity(op) ==
    CASE op \in {"INTEGER", "GET", "STACKREF"} -> 0
      [] op \in {"ISUB", "IADD", "ASSIGN"} -> 2
      [] OTHER -> -1

RECURSIVE RunFrame(_, _, _, _)
RunFrame(code, pc, stack, locals) ==
    IF pc > Len(code) THEN [stack |-> stack, locals |-> locals, ok |-> TRUE]
    ELSE LET i == code[pc]
         IN  IF FrameArity(i.op) < 0 \/ Len(stack) < FrameArity(i.op)
                \/ (i.op \in {"GET", "STACKREF"} /\ i.a + 1 \notin 1..Len(locals))
                \/ (i.op = "ASSIGN" /\ Top(stack).t # "Ref")
             THEN [stack |-> stack, locals |-> locals, ok |-> FALSE]
             ELSE CASE i.op = "INTEGER"  ->
                         RunFrame(code, pc + 1, Append(stack, IntVal(i.a)), locals)
                    [] i.op = "GET"      ->
                         RunFrame(code, pc + 1, Append(stack, locals[i.a + 1]), locals)
                    [] i.op = "STACKREF" ->
                         RunFrame(code, pc + 1, Append(stack, RefVal(i.a)), locals)
                    [] i.op = "ISUB"     ->
                         RunFrame(code, pc + 1,
                                  Append(Pop(stack, 2), IntVal(Under(stack).v - Top(stack).v)),
                                  locals)
                    [] i.op = "IADD"     ->
                         RunFrame(code, pc + 1,
                                  Append(Pop(stack, 2), IntVal(Under(stack).v + Top(stack).v)),
                                  locals)
                    [] i.op = "ASSIGN"   ->
                         RunFrame(code, pc + 1, Pop(stack, 2),
                                  [locals EXCEPT ![Top(stack).v + 1] = Under(stack)])

(* the frame in which every slot i holds the integer v + i                 *)
Frame(n, v) == [i \in 1..n |-> IntVal(v + i)]

ExecFrame(code, n, v) == RunFrame(code, 1, <<>>, Frame(n, v))

C17_IsCompound(op) ==
    /\ last.s = "Expression"
    /\ last.expr.k = "Binop"
    /\ last.expr.op = op
    /\ last.expr.lhs.k = "Literal"
    /\ last.expr.lhs.atom.a = "Id"
    /\ get_type(last.expr.lhs) = "Int"
    /\ table_has(prev.variables, last.expr.lhs.atom.id)

(* what `x = x op e` compiles to in the same context                       *)
C17_Spelled(op) ==
    Emit(prev, compile_expr(prev,
        Binop("Int", "Assignment", last.expr.lhs,
              Binop("Int", op, last.expr.lhs, last.expr.rhs))))

C17_SameStore(op) ==
    \A v \in 0..3 :
        LET n == Len(prev.variables)
            a == ExecFrame(emitted, n, v)
            b == ExecFrame(C17_Spelled(op), n, v)
        IN  a.ok /\ b.ok /\ a.locals = b.locals /\ a.stack = b.stack

(* C17: for a local x, `x -= e` puts x's value below e's before the        *)
(* subtract opcode, as `x = x - e` does: the same instructions up to the   *)
(* opcode, and the same value stored into x.                               *)
C17_CompoundSubtraction ==
    (Stepped /\ C17_IsCompound("SubtractionAssignment")) =>
        /\ emitted = C17_Spelled("Subtraction")
        /\ C17_SameStore("Subtraction")

(* `x += e` stores what `x = x + e` stores                                 *)
C17_CompoundAddition ==
    (Stepped /\ C17_IsCompound("AdditionAssignment")) => C17_SameStore("Addition")

(* `x -= e` stores what `x = e - x` stores                                 *)
C17_ReversedSubtraction ==
    (Stepped /\ C17_IsCompound("SubtractionAssignment")) =>
        \A v \in 0..3 :
            LET n == Len(prev.variables)
                x == get_index(prev.variables, last.expr.lhs.atom.id) + 1
                a == ExecFrame(emitted, n, v)
            IN  /\ a.ok
                /\ a.stack = <<>>
                /\ a.locals = [Frame(n, v) EXCEPT ![x] =
                                  IntVal(last.expr.rhs.atom.v - (v + x))]

====
